---- MODULE Spec2Model ----
(***************************************************************************)
(* Slot assignment of llvm_mode/afl-llvm-pass.so copy.cc: calcFmul (the    *)
(* parametric hash solver), calcFhash (the fallback table) and calcSingle  *)
(* (the single-predecessor table), run in that order over the file-scope   *)
(* globals hashes, solv, unsolv, params, hashMap and singleMap.            *)
(***************************************************************************)
EXTENDS Integers, Sequences, FiniteSets, TLC

(* ----------------------------- bounds -------------------------------- *)

\* log2 of the bitmap size (config.h sets 16; the model scales it down).
MAP_SIZE_POW2 == 3

\* Multi-predecessor blocks range over 0 .. delta + MaxExtra.
MaxExtra == 1

\* Single-predecessor blocks range over 0 .. MaxSingle.
MaxSingle == 2

\* Inputs with at most MaxSmall multi-predecessor blocks take every key
\* pattern and every predecessor shape.
MaxSmall == 3

(* --------------------------- constants ------------------------------- *)

\* int delta = 10;
delta == 10

\* double sigma = 0.001, kept as the denominator of the fraction 1/1000.
sigmaDen == 1000

RECURSIVE Pow2(_)
Pow2(n) == IF n = 0 THEN 1 ELSE 2 * Pow2(n - 1)

\* MAP_SIZE is 1 << MAP_SIZE_POW2.
MAP_SIZE == Pow2(MAP_SIZE_POW2)

(* ------------------------------ state -------------------------------- *)

VARIABLES
  keys,        \* map<BasicBlock*, unsigned int> keys
  preds,       \* map<BasicBlock*, vector<BasicBlock*>> preds
  multiBBS,    \* blocks with multiple precedents, in order
  singleBBS,   \* blocks with a single precedent, in order
  hashes,      \* set<unsigned int> hashes
  params,      \* map<BasicBlock*, xyz> params
  solv,        \* vector<BasicBlock*> solv
  unsolv,      \* vector<BasicBlock*> unsolv
  hashMap,     \* map<cur_pre, unsigned int> hashMap
  singleMap,   \* map<unsigned int, unsigned int> singleMap
  pc,          \* position in the run calcFmul; calcFhash; calcSingle
  y,           \* loop variable of calcFmul's outer for
  bi,          \* position of the range-for over blocks (1-based)
  pi,          \* position of calcFhash's range-for over preds[BB] (1-based)
  fhashEntry,  \* history: the value of hashes when calcFhash was entered
  singleEntry  \* history: the value of hashes when calcSingle was entered

inputs == <<keys, preds, multiBBS, singleBBS>>
vars == <<keys, preds, multiBBS, singleBBS, hashes, params, solv, unsolv,
          hashMap, singleMap, pc, y, bi, pi, fhashEntry, singleEntry>>

(* ------------------------- pure operations --------------------------- *)

\* a >> n on unsigned int
Shr(a, n) == a \div Pow2(n)

\* a ^ b on unsigned int
RECURSIVE Xor(_, _)
Xor(a, b) ==
  IF a = 0 THEN b
  ELSE IF b = 0 THEN a
  ELSE (((a % 2) + (b % 2)) % 2) + (2 * Xor(a \div 2, b \div 2))

edgeHashUnshifted(cur, pre, x, yy, z) == Xor(cur, pre + z)

\* (cur >> x) ^ (keys[p] >> y) + z : in C, + binds tighter than ^. The
\* operands stay far below 2^32, so unsigned wrap-around never occurs.
edgeHash(cur, pre, x, yy, z) == Xor(Shr(cur, x), Shr(pre, yy) + z)

\* tmpHashSet after the loop over preds[BB]
tmpHashSetOf(BB, x, yy, z) ==
  { edgeHash(keys[BB], keys[preds[BB][i]], x, yy, z) : i \in 1..Len(preds[BB]) }

NoOverlapCheck(a, b) == TRUE

\* static bool disjoint(set&, set&)
disjoint(a, b) == \A h \in a : \A t \in b : h # t

AcceptsWithoutSizeCheck(BB, x, yy, z, hs) == disjoint(tmpHashSetOf(BB, x, yy, z), hs)

\* the condition of the if that accepts a candidate
Accepts(BB, x, yy, z, hs) ==
  /\ Cardinality(tmpHashSetOf(BB, x, yy, z)) = Len(preds[BB])
  /\ disjoint(tmpHashSetOf(BB, x, yy, z), hs)

yLoopPastWidth(v) == v <= MAP_SIZE_POW2 + 1

xLoopThroughWidth(v) == v <= MAP_SIZE_POW2

\* the three for-loop conditions of calcFmul
yLoop(v) == v < MAP_SIZE_POW2
xLoop(v) == v < MAP_SIZE_POW2
zLoop(v) == v < MAP_SIZE_POW2

TryCandidateReplacingHashes(BB, x, yy, z, st) ==
  IF Accepts(BB, x, yy, z, st.hashes)
  THEN [hashes |-> tmpHashSetOf(BB, x, yy, z),
        params |-> (BB :> <<x, yy, z>>) @@ st.params,
        solv   |-> Append(st.solv, BB)]
  ELSE st

\* One candidate (x, z) of block BB on the search state
\* st = [hashes, params, solv]: the body of the z loop.
TryCandidate(BB, x, yy, z, st) ==
  IF Accepts(BB, x, yy, z, st.hashes)
  THEN [hashes |-> st.hashes \cup tmpHashSetOf(BB, x, yy, z),
        params |-> (BB :> <<x, yy, z>>) @@ st.params,
        solv   |-> Append(st.solv, BB)]
  ELSE st

\* for (int z = 1; z < MAP_SIZE_POW2; z++) from z on. (The state after one
\* iteration is bound to v before the next one, so that it is computed once.)
RECURSIVE SearchZ(_, _, _, _, _)
SearchZ(BB, x, yy, z, st) ==
  IF zLoop(z)
  THEN CHOOSE r \in { SearchZ(BB, x, yy, z + 1, v) :
                        v \in {TryCandidate(BB, x, yy, z, st)} } : TRUE
  ELSE st

\* for (int x = 1; x < MAP_SIZE_POW2; x++) from x on
RECURSIVE SearchX(_, _, _, _)
SearchX(BB, x, yy, st) ==
  IF xLoop(x)
  THEN CHOOSE r \in { SearchX(BB, x + 1, yy, v) :
                        v \in {SearchZ(BB, x, yy, 1, st)} } : TRUE
  ELSE st

\* sizeofUnsolv < delta || _min < sigma, with
\* _min = (double)sizeofUnsolv / (sizeofUnsolv + sizeofSolv); 0/0 is NaN,
\* and NaN < sigma is false.
BreakCond(nu, ns) ==
  \/ nu < delta
  \/ (nu + ns > 0 /\ nu * sigmaDen < nu + ns)

ScanThroughMapSize(hs) == { i \in 0..MAP_SIZE : i \notin hs }

\* the indices the first-fit scan for (i = 0; i < MAP_SIZE; i++) can stop at
FreeSlots(hs) == { i \in 0..(MAP_SIZE - 1) : i \notin hs }

LastFree(hs) == CHOOSE i \in FreeSlots(hs) : \A j \in FreeSlots(hs) : i >= j

\* the index at which the scan breaks (only used when one exists)
FirstFree(hs) == CHOOSE i \in FreeSlots(hs) : \A j \in FreeSlots(hs) : i <= j

(* ------------------------------ inputs ------------------------------- *)

\* shapes <<s, np>> of a predecessor list: s is the distance between the
\* predecessors of one block (0 lists the same predecessor more than once),
\* np the number of predecessors of an odd-numbered multi-predecessor block
\* (an even-numbered one has two)
Shapes == {<<0, 2>>, <<1, 2>>, <<1, 3>>, <<2, 3>>}

\* the inputs: few multi-predecessor blocks with every key pattern, or
\* about delta of them (the early stop of calcFmul depends on it) with
\* two predecessors each and fewer key patterns
InputChoice(nm, ns, sh, a, c) ==
  \/ nm <= MaxSmall
  \/ /\ nm >= delta - 1
     /\ ns <= 1
     /\ sh[2] = 2
     /\ c <= 1

\* block k of a function of nb blocks, wrapping around
Wrap(k, nb) == ((k - 1) % nb) + 1

\* Blocks 1..nm have several predecessors, nm+1..nm+ns have one, and the
\* last block (the entry block) has none.
PredsOf(nm, ns, s, np) ==
  LET nb == nm + ns + 1 IN
  [b \in 1..nb |->
     IF b <= nm
       THEN [i \in 1..(IF b % 2 = 1 THEN np ELSE 2) |-> Wrap(b + 1 + (i - 1) * s, nb)]
     ELSE IF b <= nm + ns THEN <<Wrap(b + 1, nb)>>
     ELSE << >>]

\* random keys in [0, MAP_SIZE), not necessarily distinct
KeysOf(nb, a, c) == [b \in 1..nb |-> (a * b + c) % MAP_SIZE]

(* ------------------------------ actions ------------------------------ *)

\* the state when calcFmul is called: the globals as constructed, the
\* inputs as given
Start(nm, ns, sh, a, c) ==
  /\ keys = KeysOf(nm + ns + 1, a, c)
  /\ preds = PredsOf(nm, ns, sh[1], sh[2])
  /\ multiBBS = [i \in 1..nm |-> i]
  /\ singleBBS = [i \in 1..ns |-> nm + i]
  /\ hashes = {}
  /\ params = << >>
  /\ solv = << >>
  /\ unsolv = << >>
  /\ hashMap = << >>
  /\ singleMap = << >>
  /\ pc = "fmul_for"
  /\ y = 1
  /\ bi = 1
  /\ pi = 1
  /\ fhashEntry = {}
  /\ singleEntry = {}

Init ==
  \E nm \in 0..(delta + MaxExtra), ns \in 0..MaxSingle, sh \in Shapes,
     a \in 0..(MAP_SIZE - 1), c \in 0..(MAP_SIZE - 1) :
    /\ InputChoice(nm, ns, sh, a, c)
    /\ Start(nm, ns, sh, a, c)

\* the inputs of the runs of calcFmul alone: no single-predecessor block
\* (calcFmul does not read singleBBS) and two key offsets
FmulInit ==
  \E nm \in 0..(delta + MaxExtra), sh \in Shapes, a \in 0..(MAP_SIZE - 1),
     c \in 0..1 :
    /\ InputChoice(nm, 0, sh, a, c)
    /\ Start(nm, 0, sh, a, c)

FmulRoundReservingSlot ==
  /\ pc = "fmul_for"
  /\ yLoop(y)
  /\ hashes' = {0}
  /\ params' = << >>
  /\ solv' = << >>
  /\ unsolv' = << >>
  /\ bi' = 1
  /\ pc' = "fmul_bb"
  /\ UNCHANGED <<inputs, hashMap, singleMap, y, pi, fhashEntry, singleEntry>>

\* calcFmul: the outer for enters a round and clears the per-round state
FmulRound ==
  /\ pc = "fmul_for"
  /\ yLoop(y)
  /\ hashes' = {}
  /\ params' = << >>
  /\ solv' = << >>
  /\ unsolv' = << >>
  /\ bi' = 1
  /\ pc' = "fmul_bb"
  /\ UNCHANGED <<inputs, hashMap, singleMap, y, pi, fhashEntry, singleEntry>>

\* calcFmul: one iteration of for (auto BB : multiBBS): the whole x, z
\* search for BB, then unsolv.push_back(BB)
FmulBlock ==
  /\ pc = "fmul_bb"
  /\ bi <= Len(multiBBS)
  /\ LET BB == multiBBS[bi]
         st == SearchX(BB, 1, y, [hashes |-> hashes, params |-> params, solv |-> solv])
     IN /\ hashes' = st.hashes
        /\ params' = st.params
        /\ solv' = st.solv
        /\ unsolv' = Append(unsolv, BB)
  /\ bi' = bi + 1
  /\ UNCHANGED <<inputs, hashMap, singleMap, pc, y, pi, fhashEntry, singleEntry>>

\* calcFmul: after the last block, the break is taken and calcFmul returns
FmulBreak ==
  /\ pc = "fmul_bb"
  /\ bi > Len(multiBBS)
  /\ BreakCond(Len(unsolv), Len(solv))
  /\ pc' = "fhash"
  /\ UNCHANGED <<inputs, hashes, params, solv, unsolv, hashMap, singleMap, y, bi,
                 pi, fhashEntry, singleEntry>>

\* calcFmul: after the last block, no break: y++
FmulNextRound ==
  /\ pc = "fmul_bb"
  /\ bi > Len(multiBBS)
  /\ ~BreakCond(Len(unsolv), Len(solv))
  /\ y' = y + 1
  /\ pc' = "fmul_for"
  /\ UNCHANGED <<inputs, hashes, params, solv, unsolv, hashMap, singleMap, bi, pi,
                 fhashEntry, singleEntry>>

\* calcFmul: the outer for ends because its condition is false
FmulExit ==
  /\ pc = "fmul_for"
  /\ ~yLoop(y)
  /\ pc' = "fhash"
  /\ UNCHANGED <<inputs, hashes, params, solv, unsolv, hashMap, singleMap, y, bi,
                 pi, fhashEntry, singleEntry>>

\* calcFhash: hashMap.clear() and entry of the loop over unsolv
FhashStart ==
  /\ pc = "fhash"
  /\ hashMap' = << >>
  /\ bi' = 1
  /\ pi' = 1
  /\ fhashEntry' = hashes
  /\ pc' = "fhash_edge"
  /\ UNCHANGED <<inputs, hashes, params, solv, unsolv, singleMap, y, singleEntry>>

\* the block and predecessor positions after the current edge
NextEdge ==
  IF pi < Len(preds[unsolv[bi]]) THEN <<bi, pi + 1>> ELSE <<bi + 1, 1>>

\* calcFhash: one edge, the scan finds a free index
FhashAssign ==
  /\ pc = "fhash_edge"
  /\ bi <= Len(unsolv)
  /\ FreeSlots(hashes) # {}
  /\ LET BB == unsolv[bi]
         cur == keys[BB]
         pre == keys[preds[BB][pi]]
         i == FirstFree(hashes)
     IN /\ hashMap' = (<<cur, pre>> :> i) @@ hashMap
        /\ hashes' = hashes \cup {i}
  /\ bi' = NextEdge[1]
  /\ pi' = NextEdge[2]
  /\ UNCHANGED <<inputs, params, solv, unsolv, singleMap, pc, y, fhashEntry, singleEntry>>

\* calcFhash: one edge, the scan reaches MAP_SIZE without a free index: the
\* for ends and nothing is stored
FhashNoSlot ==
  /\ pc = "fhash_edge"
  /\ bi <= Len(unsolv)
  /\ FreeSlots(hashes) = {}
  /\ bi' = NextEdge[1]
  /\ pi' = NextEdge[2]
  /\ UNCHANGED <<inputs, hashes, params, solv, unsolv, hashMap, singleMap, pc, y,
                 fhashEntry, singleEntry>>

\* calcFhash returns
FhashReturn ==
  /\ pc = "fhash_edge"
  /\ bi > Len(unsolv)
  /\ pc' = "single"
  /\ UNCHANGED <<inputs, hashes, params, solv, unsolv, hashMap, singleMap, y, bi,
                 pi, fhashEntry, singleEntry>>

\* calcSingle: singleMap.clear() and entry of the loop over singleBBS
SingleStart ==
  /\ pc = "single"
  /\ singleMap' = << >>
  /\ bi' = 1
  /\ singleEntry' = hashes
  /\ pc' = "single_bb"
  /\ UNCHANGED <<inputs, hashes, params, solv, unsolv, hashMap, y, pi, fhashEntry>>

SingleAssignIntoHashMap ==
  /\ pc = "single_bb"
  /\ bi <= Len(singleBBS)
  /\ FreeSlots(hashes) # {}
  /\ LET cur == keys[singleBBS[bi]]
         i == FirstFree(hashes)
     IN /\ hashMap' = (<<cur, cur>> :> i) @@ hashMap
        /\ hashes' = hashes \cup {i}
  /\ bi' = bi + 1
  /\ UNCHANGED <<inputs, params, solv, unsolv, singleMap, pc, y, pi, fhashEntry, singleEntry>>

\* calcSingle: one block, the scan finds a free index
SingleAssign ==
  /\ pc = "single_bb"
  /\ bi <= Len(singleBBS)
  /\ FreeSlots(hashes) # {}
  /\ LET cur == keys[singleBBS[bi]]
         i == FirstFree(hashes)
     IN /\ singleMap' = (cur :> i) @@ singleMap
        /\ hashes' = hashes \cup {i}
  /\ bi' = bi + 1
  /\ UNCHANGED <<inputs, params, solv, unsolv, hashMap, pc, y, pi, fhashEntry, singleEntry>>

\* calcSingle: one block, the scan reaches MAP_SIZE without a free index
SingleNoSlot ==
  /\ pc = "single_bb"
  /\ bi <= Len(singleBBS)
  /\ FreeSlots(hashes) = {}
  /\ bi' = bi + 1
  /\ UNCHANGED <<inputs, hashes, params, solv, unsolv, hashMap, singleMap, pc, y,
                 pi, fhashEntry, singleEntry>>

\* calcSingle returns
SingleReturn ==
  /\ pc = "single_bb"
  /\ bi > Len(singleBBS)
  /\ pc' = "done"
  /\ UNCHANGED <<inputs, hashes, params, solv, unsolv, hashMap, singleMap, y, bi,
                 pi, fhashEntry, singleEntry>>

Next ==
  \/ FmulRound
  \/ FmulBlock
  \/ FmulBreak
  \/ FmulNextRound
  \/ FmulExit
  \/ FhashStart
  \/ FhashAssign
  \/ FhashNoSlot
  \/ FhashReturn
  \/ SingleStart
  \/ SingleAssign
  \/ SingleNoSlot
  \/ SingleReturn

Spec == Init /\ [][Next]_vars

\* calcFmul alone, from its call to its return
FmulNext ==
  \/ FmulRound
  \/ FmulBlock
  \/ FmulBreak
  \/ FmulNextRound
  \/ FmulExit

\* calcFmul is sequential code: a step that can be taken is taken
FmulFairSpec == FmulInit /\ [][FmulNext]_vars /\ WF_vars(FmulNext)

(* ----------------------- derived observations ------------------------ *)

\* the positions of calcFmul, and those after calcFhash has returned
InFmul == pc \in {"fmul_for", "fmul_bb"}
AfterFhash == pc \in {"single", "single_bb", "done"}

\* the incoming edges of block B, as positions of its predecessor list
EdgesOf(B) == 1..Len(preds[B])

\* the (cur_key, pred_key) pair of the i-th incoming edge of B
KeyPair(B, i) == <<keys[B], keys[preds[B][i]]>>

\* the hash of the i-th incoming edge of B under the triple stored for B
ParamHash(B, i) ==
  edgeHash(keys[B], keys[preds[B][i]], params[B][1], params[B][2], params[B][3])

\* the elements of a sequence, and how often b occurs in it
Range(q) == { q[i] : i \in 1..Len(q) }
Count(q, b) == Cardinality({ i \in 1..Len(q) : q[i] = b })

\* the number of incoming edges of the blocks of set S
RECURSIVE EdgeTotal(_)
EdgeTotal(S) ==
  IF S = {} THEN 0
  ELSE LET b == CHOOSE b \in S : TRUE IN Len(preds[b]) + EdgeTotal(S \ {b})

(* ------------------------------ claims ------------------------------- *)

\* C1: once calcFmul, calcFhash and calcSingle have run, no slot is shared
\* by two distinct entries among the hashes of the edges of the blocks with
\* a stored triple, the values of hashMap and the values of singleMap.
C1_Uniqueness ==
  pc = "done" =>
    LET P == UNION { { <<"params", <<B, i>>, ParamHash(B, i)>> : i \in EdgesOf(B) }
                     : B \in DOMAIN params }
        H == { <<"hashMap", k, hashMap[k]>> : k \in DOMAIN hashMap }
        S == { <<"singleMap", k, singleMap[k]>> : k \in DOMAIN singleMap }
    IN \A e1, e2 \in P \cup H \cup S : e1 # e2 => e1[3] # e2[3]

\* C1 witness: a completed run that left a stored triple, a fallback entry
\* and a single-predecessor entry.
C1_Witness ==
  /\ pc = "done"
  /\ DOMAIN params # {}
  /\ DOMAIN hashMap # {}
  /\ DOMAIN singleMap # {}

\* C2: after calcFmul, the triple stored for a block gives its incoming
\* edges as many distinct hashes as the block has predecessors.
C2_SolvedExact ==
  ~InFmul =>
    \A B \in DOMAIN params :
      Cardinality({ ParamHash(B, i) : i \in EdgesOf(B) }) = Len(preds[B])

\* C2 witness: calcFmul has returned with a stored triple for a block of
\* three predecessors for which more than one candidate was accepted.
C2_Witness ==
  /\ pc = "fhash"
  /\ \E B \in DOMAIN params : Len(preds[B]) = 3 /\ Count(solv, B) >= 2

\* C3: a run never completes normally while a single-predecessor block or
\* an edge handed to calcFhash is left without a table entry because the
\* scan found every index of [0, MAP_SIZE) occupied (the code has no error
\* exit: every run reaches "done").
C3_ExhaustionIsFatal ==
  pc = "done" =>
    /\ \A B \in Range(singleBBS) : keys[B] \in DOMAIN singleMap
    /\ \A B \in Range(unsolv) : \A i \in EdgesOf(B) : KeyPair(B, i) \in DOMAIN hashMap

\* C4: after calcFhash, hashMap has no entry for an incoming edge of a block
\* with a stored triple, and calcFhash consumed no more slots than the
\* blocks without a triple have edges.
C4_SolvedSkipsFallback ==
  AfterFhash =>
    /\ \A B \in DOMAIN params : \A i \in EdgesOf(B) : KeyPair(B, i) \notin DOMAIN hashMap
    /\ pc = "single" =>
         Cardinality(hashes) - Cardinality(fhashEntry)
           <= EdgeTotal(Range(multiBBS) \ DOMAIN params)

\* C5: when calcFmul returns, every multi-predecessor block occurs exactly
\* once in solv and unsolv taken together, and it is in unsolv exactly when
\* no candidate was accepted for it in the last round (it has no triple).
C5_Partition ==
  pc = "fhash" =>
    \A B \in Range(multiBBS) :
      /\ Count(solv, B) + Count(unsolv, B) = 1
      /\ (B \in Range(unsolv)) <=> (B \notin DOMAIN params)

\* two predecessors of B get the same hash under every candidate (x, y, z)
SameHashAlways(B) ==
  \E i, j \in EdgesOf(B) :
    /\ i # j
    /\ \A x, yy, z \in 1..(MAP_SIZE_POW2 - 1) :
         edgeHash(keys[B], keys[preds[B][i]], x, yy, z)
           = edgeHash(keys[B], keys[preds[B][j]], x, yy, z)

\* C6: a block two of whose predecessors always hash alike never holds a
\* triple and, when the free slots suffice for the edges calcFhash handles,
\* after calcFhash each of its edges has a hashMap entry, different edges
\* hold different slots, and none of these slots was occupied on entry.
C6_CollidingBlockFallsBack ==
  \A B \in Range(multiBBS) :
    SameHashAlways(B) =>
      /\ B \notin DOMAIN params
      /\ (AfterFhash /\ Cardinality(fhashEntry) + EdgeTotal(Range(unsolv)) <= MAP_SIZE) =>
           /\ \A i \in EdgesOf(B) :
                /\ KeyPair(B, i) \in DOMAIN hashMap
                /\ hashMap[KeyPair(B, i)] \notin fhashEntry
           /\ \A i, j \in EdgesOf(B) :
                i # j => hashMap[KeyPair(B, i)] # hashMap[KeyPair(B, j)]

\* C7: after calcSingle on single-predecessor blocks that fit in the free
\* slots, every such block finds its key in singleMap and two distinct
\* blocks resolve to two different slots, whatever their keys.
C7_SingleBlocksDistinct ==
  (pc = "done" /\ Cardinality(singleEntry) + Len(singleBBS) <= MAP_SIZE) =>
    /\ \A B \in Range(singleBBS) : keys[B] \in DOMAIN singleMap
    /\ \A B1, B2 \in Range(singleBBS) :
         B1 # B2 => singleMap[keys[B1]] # singleMap[keys[B2]]

\* C8: hashes never holds more than MAP_SIZE slots, and from the entry of
\* calcFhash to the end of calcSingle no step makes it smaller.
C8_MonotonicOccupancy ==
  /\ [](Cardinality(hashes) <= MAP_SIZE)
  /\ [][~InFmul => Cardinality(hashes') >= Cardinality(hashes)]_vars

\* C8 witness: the two builders filled the last free slots.
C8_Witness ==
  /\ pc = "done"
  /\ Cardinality(fhashEntry) < Cardinality(singleEntry)
  /\ Cardinality(singleEntry) < Cardinality(hashes)
  /\ Cardinality(hashes) = MAP_SIZE

\* C9: calcFmul returns in every run, and no round runs with a shift y above
\* log2(MAP_SIZE), whether or not the early stop is ever taken.
C9_Termination ==
  /\ <>(pc = "fhash")
  /\ [](pc = "fmul_bb" => y <= MAP_SIZE_POW2)

\* C9 witness: calcFmul returned because the sweep ran out of values of y,
\* the early stop never having been taken.
C9_Witness ==
  /\ pc = "fhash"
  /\ y = MAP_SIZE_POW2
  /\ ~BreakCond(Len(unsolv), Len(solv))

\* no multi-predecessor and no single-predecessor block
EmptyBlockSet == multiBBS = << >> /\ singleBBS = << >>

\* C10: with an empty block set the three phases leave solv, unsolv, params,
\* hashMap, singleMap and hashes empty, in every state up to completion.
C10_EmptyInput ==
  EmptyBlockSet =>
    /\ solv = << >>
    /\ unsolv = << >>
    /\ DOMAIN params = {}
    /\ DOMAIN hashMap = {}
    /\ DOMAIN singleMap = {}
    /\ hashes = {}

\* C10 witness: the run over an empty block set has completed.
C10_Witness == EmptyBlockSet /\ pc = "done"

\* the values x, y and z take in the loops of calcFmul
SearchRange == 1..(MAP_SIZE_POW2 - 1)

\* candidate c = <<x, z>> is tried before candidate d in the x, z loops
TriedBefore(c, d) == c[1] < d[1] \/ (c[1] = d[1] /\ c[2] < d[2])

\* the first candidate of R \X R, in loop order, that the acceptance
\* condition admits for BB against the claimed hashes hs (none: the empty set)
FirstAccepted(BB, yy, hs, R) ==
  { c \in R \X R :
      /\ Accepts(BB, c[1], yy, c[2], hs)
      /\ \A d \in R \X R : TriedBefore(d, c) => ~Accepts(BB, d[1], yy, d[2], hs) }

\* a step of calcFmul that handles one block
BlockStep == pc = "fmul_bb" /\ bi <= Len(multiBBS)

\* the hashes of the incoming edges of B under the triple stored for B
ParamHashes(B) == { ParamHash(B, i) : i \in EdgesOf(B) }

\* C11: the triple stored for a block solved in round y is (x, y, z) for the
\* first candidate (x, z), in ascending x then z, that is collision-free and
\* disjoint from the hashes claimed before the block; no later candidate
\* replaces it.
C11_FirstFitTriple ==
  [][BlockStep =>
       LET BB == multiBBS[bi] IN
         BB \in DOMAIN params' =>
           \E c \in FirstAccepted(BB, y, hashes, SearchRange) :
             params'[BB] = <<c[1], y, c[2]>>]_vars

\* C12: when calcFmul returns, hashes is exactly the union of the edge
\* hashes of the blocks with a stored triple: |preds[B]| slots per such block.
C12_HashesAreSolvedEdges ==
  pc = "fhash" =>
    /\ hashes = UNION { ParamHashes(B) : B \in DOMAIN params }
    /\ Cardinality(hashes) = EdgeTotal(DOMAIN params)

\* a step of calcFmul that ends a round, after the last block
RoundEndStep == pc = "fmul_bb" /\ bi > Len(multiBBS)

\* the multi-predecessor blocks without a triple, i.e. left unsolved
LeftUnsolved == Range(multiBBS) \ DOMAIN params

\* C13: after a round the sweep stops if and only if fewer than delta blocks
\* were left unsolved, or their fraction of all multi-predecessor blocks is
\* below sigma = 1/1000; otherwise y is incremented.
C13_EarlyStop ==
  [][RoundEndStep =>
       LET nu == Cardinality(LeftUnsolved)
           ns == Cardinality(DOMAIN params)
       IN (pc' = "fhash") <=> (nu < delta \/ (nu + ns > 0 /\ nu * sigmaDen < nu + ns))]_vars

\* C14 as stated: x and z range over 1 .. log2(MAP_SIZE) with the upper bound
\* included, so a block for which one of those candidates is collision-free
\* and disjoint is solved; and a round runs for every y up to log2(MAP_SIZE).
C14_InclusiveRanges ==
  [][/\ BlockStep =>
          (FirstAccepted(multiBBS[bi], y, hashes, 1..MAP_SIZE_POW2) # {}
             => multiBBS[bi] \in DOMAIN params')
     /\ (pc = "fmul_for" /\ y <= MAP_SIZE_POW2) => pc' = "fmul_bb"]_vars

\* C14 amended: x, y and z range over 1 .. log2(MAP_SIZE) - 1. A block is
\* solved in a round exactly when a candidate of that range is collision-free
\* and disjoint from the hashes claimed before it, a round runs exactly for
\* the y of that range, and every component of a stored triple lies in it.
C14_ExclusiveRanges ==
  [][/\ BlockStep =>
          /\ (FirstAccepted(multiBBS[bi], y, hashes, SearchRange) # {}
                <=> multiBBS[bi] \in DOMAIN params')
          /\ \A B \in DOMAIN params' : \A k \in 1..3 : params'[B][k] \in SearchRange
     /\ pc = "fmul_for" => (pc' = "fmul_bb" <=> y \in SearchRange)]_vars

\* C14 witness: calcFmul returned with a block whose only accepted candidate
\* has the largest x and z of the range.
C14_Witness ==
  /\ pc = "fhash"
  /\ \E B \in DOMAIN params :
       /\ Count(solv, B) = 1
       /\ params[B][1] = MAP_SIZE_POW2 - 1
       /\ params[B][3] = MAP_SIZE_POW2 - 1

\* the slots handed out by the first-fit scans so far
Assigned == hashes \ fhashEntry

\* C15: a step of calcFhash or calcSingle that assigns a slot stores the
\* smallest index of [0, MAP_SIZE) not in hashes and adds it to hashes in
\* the same step, so each assigned slot exceeds all those assigned before.
C15_FirstFit ==
  [][(pc \in {"fhash_edge", "single_bb"} /\ <<hashes, hashMap, singleMap>>' # <<hashes, hashMap, singleMap>>) =>
       \E s \in 0..(MAP_SIZE - 1) :
         /\ s \notin hashes
         /\ \A j \in 0..(s - 1) : j \in hashes
         /\ hashes' = hashes \cup {s}
         /\ \A t \in Assigned : t < s
         /\ pc = "fhash_edge" =>
              /\ hashMap' = (KeyPair(unsolv[bi], pi) :> s) @@ hashMap
              /\ singleMap' = singleMap
         /\ pc = "single_bb" =>
              /\ singleMap' = (keys[singleBBS[bi]] :> s) @@ singleMap
              /\ hashMap' = hashMap]_vars

\* C15 witness: both scans assigned slots around slots calcFmul had claimed.
C15_Witness ==
  /\ pc = "done"
  /\ \E h \in fhashEntry : \E s, t \in Assigned : s < h /\ h < t
  /\ singleEntry # hashes
  /\ singleEntry # fhashEntry

\* the round that ran last: the loop variable y, or y - 1 once the loop
\* condition has failed
LastRound == IF y < MAP_SIZE_POW2 THEN y ELSE y - 1

\* C16: an element leaves hashes only in the step that starts a round, which
\* empties hashes, solv, unsolv and params together; so on completion every
\* stored triple has the y of the last round and its hashes are in hashes.
C16_ClearedOnlyAtRoundStart ==
  /\ [][(hashes \ hashes' # {}) =>
          /\ pc = "fmul_for" /\ pc' = "fmul_bb"
          /\ hashes' = {} /\ solv' = << >> /\ unsolv' = << >> /\ DOMAIN params' = {}]_vars
  /\ [][(pc = "fmul_for" /\ pc' = "fmul_bb") =>
          hashes' = {} /\ solv' = << >> /\ unsolv' = << >> /\ DOMAIN params' = {}]_vars
  /\ [](pc = "done" =>
          \A B \in DOMAIN params :
            params[B][2] = LastRound /\ ParamHashes(B) \subseteq hashes)

\* C16 witness: a run of several rounds completed with a stored triple, the
\* earlier rounds having claimed hashes too.
C16_Witness ==
  /\ pc = "done"
  /\ y >= 2
  /\ DOMAIN params # {}

\* C17: every element of hashes lies in [0, MAP_SIZE) in every state, and
\* so does every edge hash (addition before XOR) that calcFmul computes for
\* the block at hand in the current round, accepted or not, for every x and z
\* of the searched range.
C17_SlotsInRange ==
  /\ hashes \subseteq 0..(MAP_SIZE - 1)
  /\ BlockStep =>
       \A x, z \in SearchRange :
         tmpHashSetOf(multiBBS[bi], x, y, z) \subseteq 0..(MAP_SIZE - 1)

\* C17 witness: calcFmul claimed the highest slot, and the scans then
\* filled the bitmap.
C17_Witness ==
  /\ pc = "done"
  /\ (MAP_SIZE - 1) \in fhashEntry
  /\ Cardinality(fhashEntry) < MAP_SIZE
  /\ Cardinality(hashes) = MAP_SIZE

\* C18: calcFhash leaves params, solv, unsolv and singleMap unchanged,
\* calcSingle leaves params, solv, unsolv and hashMap unchanged, and neither
\* changes keys, preds, multiBBS or singleBBS.
C18_Frame ==
  [][/\ pc \in {"fhash", "fhash_edge"} =>
          UNCHANGED <<params, solv, unsolv, singleMap, inputs>>
     /\ pc \in {"single", "single_bb"} =>
          UNCHANGED <<params, solv, unsolv, hashMap, inputs>>]_vars

\* C18 witness: a completed run in which calcFhash and calcSingle both
\* wrote their table and hashes, with a stored triple and solv to preserve.
C18_Witness ==
  /\ pc = "done"
  /\ DOMAIN params # {} /\ solv # << >> /\ unsolv # << >>
  /\ DOMAIN hashMap # {}
  /\ Cardinality(DOMAIN singleMap) >= 2
  /\ fhashEntry # singleEntry /\ singleEntry # hashes

====
